---- MODULE Spec2Model ----
(***************************************************************************)
(* demo.py: hello_world(), class Calculator (value, add, multiply) and the *)
(* script body run under  if __name__ == "__main__".                       *)
(*                                                                         *)
(* The methods are  self.value += num  and  self.value *= num  on          *)
(* untyped operands, so the model carries Python's own + and * for the     *)
(* operand types a caller can pass: int, float, str and None.              *)
(***************************************************************************)
EXTENDS Integers, Sequences, FiniteSets, TLC

VARIABLES name, pc, value, log, stdout, status

vars == <<name, pc, value, log, stdout, status>>

(***************************************************************************)
(* Bound of the model: the number of calls a client of the imported module *)
(* makes.                                                                  *)
(***************************************************************************)
MaxCalls == 3

(***************************************************************************)
(* Python values.  One record shape for every type:                        *)
(*   int    m is the (signed) integer                                      *)
(*   float  k = "fin": sg * m * 2^e with m = 0 (a signed zero) or m odd;   *)
(*          k = "inf": sg * infinity;  k = "nan"                           *)
(*   str    s is the text                                                  *)
(*   NoneType                                                              *)
(***************************************************************************)
PyVal(t, k, sg, m, e, s) == [t |-> t, k |-> k, sg |-> sg, m |-> m, e |-> e, s |-> s]

PyInt(n) == PyVal("int", "fin", 1, n, 0, "")

PyStr(s) == PyVal("str", "fin", 1, 0, 0, s)

PyNone == PyVal("NoneType", "fin", 1, 0, 0, "")

FFin(sg, m, e) == PyVal("float", "fin", sg, m, e, "")

FZero(sg) == FFin(sg, 0, 0)

FInf(sg) == PyVal("float", "inf", sg, 0, 0, "")

FNaN == PyVal("float", "nan", 1, 0, 0, "")

\* The name  calc  before line 19 binds it.
Unbound == PyVal("unbound", "fin", 1, 0, 0, "")

IsInt(v) == v.t = "int"

IsFloat(v) == v.t = "float"

IsNum(v) == IsInt(v) \/ IsFloat(v)

IsFinite(v) == IsInt(v) \/ (IsFloat(v) /\ v.k = "fin")

\* Python's  v == 0  (0, 0.0 and -0.0 all compare equal to 0).
IsZero(v) == IsFinite(v) /\ v.m = 0

(***************************************************************************)
(* float is IEEE 754 binary64: 53 bits of precision, largest finite        *)
(* exponent 1023, smallest subnormal 2^-1074, round to nearest, ties to    *)
(* even.                                                                   *)
(***************************************************************************)
Prec == 53

MaxExp == 1023

MinExp == -1074

Abs(n) == IF n < 0 THEN -n ELSE n

Sign(n) == IF n < 0 THEN -1 ELSE 1

RECURSIVE BitLen(_)
BitLen(m) == IF m = 0 THEN 0 ELSE 1 + BitLen(m \div 2)

\* m * 2^e with the trailing zero bits of m moved into the exponent.
RECURSIVE Norm(_, _)
Norm(m, e) == IF m # 0 /\ m % 2 = 0 THEN Norm(m \div 2, e + 1) ELSE [m |-> m, e |-> e]

\* m / 2^k rounded to the nearest integer, ties to even (k >= 1, m >= 0).
RoundHalfEven(m, k) ==
    IF k > BitLen(m) THEN 0
    ELSE LET p == 2 ^ k
             q == m \div p
             r == m % p
             half == p \div 2
         IN IF r > half \/ (r = half /\ q % 2 = 1) THEN q + 1 ELSE q

\* The float nearest to sg * M * 2^e (M > 0 exact).
RoundFloat(sg, M, e) ==
    LET n0 == Norm(M, e)
        b0 == BitLen(n0.m)
        n1 == IF b0 > Prec
              THEN Norm(RoundHalfEven(n0.m, b0 - Prec), n0.e + (b0 - Prec))
              ELSE n0
    IN IF BitLen(n1.m) + n1.e > MaxExp + 1 THEN FInf(sg)
       ELSE IF n1.e < MinExp
            THEN LET q == RoundHalfEven(n1.m, MinExp - n1.e)
                     n2 == Norm(q, MinExp)
                 IN IF q = 0 THEN FZero(sg) ELSE FFin(sg, n2.m, n2.e)
            ELSE FFin(sg, n1.m, n1.e)

\* float(n) for an int n: exact below 2^53 in magnitude, where the ints of the
\* model lie (from 2^1024 on, int + float raises OverflowError instead).
IntToFloat(n) == IF n = 0 THEN FZero(1) ELSE RoundFloat(Sign(n), Abs(n), 0)

ToFloat(v) == IF IsInt(v) THEN IntToFloat(v.m) ELSE v

\* |y| is below half the spacing of the floats next to x: x + y rounds to x.
Absorbs(x, y) == y.e + BitLen(y.m) <= x.e + BitLen(x.m) - (Prec + 2)

\* float.__add__
FloatAdd(x, y) ==
    IF x.k = "nan" \/ y.k = "nan" THEN FNaN
    ELSE IF x.k = "inf" /\ y.k = "inf" THEN (IF x.sg = y.sg THEN x ELSE FNaN)
    ELSE IF x.k = "inf" THEN x
    ELSE IF y.k = "inf" THEN y
    ELSE IF x.m = 0 /\ y.m = 0 THEN (IF x.sg = y.sg THEN x ELSE FZero(1))
    ELSE IF x.m = 0 THEN y
    ELSE IF y.m = 0 THEN x
    ELSE IF Absorbs(x, y) THEN x
    ELSE IF Absorbs(y, x) THEN y
    ELSE LET lo == IF x.e < y.e THEN x.e ELSE y.e
             S == x.sg * x.m * 2 ^ (x.e - lo) + y.sg * y.m * 2 ^ (y.e - lo)
         IN IF S = 0 THEN FZero(1) ELSE RoundFloat(Sign(S), Abs(S), lo)

\* float.__mul__
FloatMul(x, y) ==
    IF x.k = "nan" \/ y.k = "nan" THEN FNaN
    ELSE IF x.k = "inf" \/ y.k = "inf"
         THEN (IF IsZero(x) \/ IsZero(y) THEN FNaN ELSE FInf(x.sg * y.sg))
    ELSE IF x.m = 0 \/ y.m = 0 THEN FZero(x.sg * y.sg)
    ELSE RoundFloat(x.sg * y.sg, x.m * y.m, x.e + y.e)

\* n copies of s (none when n <= 0): the sequence repetition of  s * n.
RECURSIVE Repeat(_, _)
Repeat(s, n) == IF n <= 0 THEN "" ELSE s \o Repeat(s, n - 1)

\* The outcome of evaluating an expression: a value, or a raised exception.
Ok(v) == [ok |-> TRUE, val |-> v, exc |-> ""]

Raise(exc) == [ok |-> FALSE, val |-> PyNone, exc |-> exc]

\* v + n
PyAdd(v, n) ==
    IF IsInt(v) /\ IsInt(n) THEN Ok(PyInt(v.m + n.m))
    ELSE IF IsNum(v) /\ IsNum(n) THEN Ok(FloatAdd(ToFloat(v), ToFloat(n)))
    ELSE IF v.t = "str" /\ n.t = "str" THEN Ok(PyStr(v.s \o n.s))
    ELSE Raise("TypeError")

\* v * n
PyMul(v, n) ==
    IF IsInt(v) /\ IsInt(n) THEN Ok(PyInt(v.m * n.m))
    ELSE IF IsNum(v) /\ IsNum(n) THEN Ok(FloatMul(ToFloat(v), ToFloat(n)))
    ELSE IF v.t = "str" /\ IsInt(n) THEN Ok(PyStr(Repeat(v.s, n.m)))
    ELSE IF IsInt(v) /\ n.t = "str" THEN Ok(PyStr(Repeat(n.s, v.m)))
    ELSE Raise("TypeError")

\* format(v, "") inside an f-string; the script only ever formats an int.
Digit(d) == <<"0", "1", "2", "3", "4", "5", "6", "7", "8", "9">>[d + 1]

RECURSIVE NatToStr(_)
NatToStr(n) == IF n < 10 THEN Digit(n) ELSE NatToStr(n \div 10) \o Digit(n % 10)

IntToStr(n) == IF n < 0 THEN "-" \o NatToStr(-n) ELSE NatToStr(n)

PyFormat(v) ==
    CASE v.t = "int" -> IntToStr(v.m)
      [] v.t = "str" -> v.s
      [] v.t = "NoneType" -> "None"

(***************************************************************************)
(* The functions of the module, as functions of the state they read.  A    *)
(* call comes back with the new self.value, how it ended (kind), what it   *)
(* returned (ret) or raised (exc), and the lines it printed (out).         *)
(***************************************************************************)
Returned(v, r, out) == [value |-> v, kind |-> "return", ret |-> r, exc |-> "", out |-> out]

Raised(v, exc) == [value |-> v, kind |-> "raise", ret |-> PyNone, exc |-> exc, out |-> <<>>]

\* Mutant: the greeting printed twice.
hello_world_twice(v) == Returned(v, PyStr("success"), <<"Hello World!", "Hello World!">>)

\* def hello_world(): print("Hello World!"); return "success"
hello_world(v) == Returned(v, PyStr("success"), <<"Hello World!">>)

\* Calculator.__init__: self.value = 0
Calculator_init == PyInt(0)

\* Mutant:  self.value = num  for  self.value += num.
Calculator_add_assign(v, num) ==
    LET r == PyAdd(v, num)
    IN IF r.ok THEN Returned(num, num, <<>>) ELSE Raised(v, r.exc)

\* Mutant: the value before the update returned.
Calculator_add_stale(v, num) ==
    LET r == PyAdd(v, num)
    IN IF r.ok THEN Returned(r.val, v, <<>>) ELSE Raised(v, r.exc)

\* Mutant: a failed update leaves self.value reset to 0.
Calculator_add_reset(v, num) ==
    LET r == PyAdd(v, num)
    IN IF r.ok THEN Returned(r.val, r.val, <<>>) ELSE Raised(PyInt(0), r.exc)

\* Calculator.add: self.value += num; return self.value
Calculator_add(v, num) ==
    LET r == PyAdd(v, num)
    IN IF r.ok THEN Returned(r.val, r.val, <<>>) ELSE Raised(v, r.exc)

\* Mutant: the value before the update returned.
Calculator_multiply_stale(v, num) ==
    LET r == PyMul(v, num)
    IN IF r.ok THEN Returned(r.val, v, <<>>) ELSE Raised(v, r.exc)

\* Mutant:  self.value += num  for  self.value *= num.
Calculator_multiply_plus(v, num) ==
    LET r == PyAdd(v, num)
    IN IF r.ok THEN Returned(r.val, r.val, <<>>) ELSE Raised(v, r.exc)

\* Calculator.multiply: self.value *= num; return self.value
Calculator_multiply(v, num) ==
    LET r == PyMul(v, num)
    IN IF r.ok THEN Returned(r.val, r.val, <<>>) ELSE Raised(v, r.exc)

(***************************************************************************)
(* State.                                                                  *)
(*   name    __name__ of the module: "__main__" when run as a script       *)
(*   pc      the line the module body is at; "client" once an importer has *)
(*           the module; "exit" when the process of the script has ended   *)
(*   value   calc.value (Unbound before a Calculator is constructed)       *)
(*   log     every call made so far, with its argument, self.value before  *)
(*           and after, and its outcome                                    *)
(*   stdout  the lines written to standard output                          *)
(*   status  <<>> while running, <<exit status>> of the script after       *)
(***************************************************************************)
Call(op, arg, pre, r) ==
    [op |-> op, arg |-> arg, pre |-> pre, post |-> r.value,
     kind |-> r.kind, ret |-> r.ret, exc |-> r.exc]

\* The arguments a client passes: ints, floats (0.0, -0.0, 0.5, 2^1023, -2^1023),
\* a str, None.
Args ==
    {PyInt(0), PyInt(2), PyInt(-3),
     FZero(1), FZero(-1), FFin(1, 1, -1), FFin(1, 1, MaxExp), FFin(-1, 1, MaxExp),
     PyStr("ab"), PyNone}

Init ==
    /\ name \in {"__main__", "demo"}
    /\ pc = "L18"
    /\ value = Unbound
    /\ log = <<>>
    /\ stdout = <<>>
    /\ status = <<>>

\* A call made by the script body: an exception nobody catches ends the process.
MainCall(op, arg, r, next) ==
    /\ value' = r.value
    /\ log' = Append(log, Call(op, arg, value, r))
    /\ stdout' = stdout \o r.out
    /\ IF r.kind = "raise"
       THEN pc' = "exit" /\ status' = <<1>>
       ELSE pc' = next /\ status' = status
    /\ UNCHANGED name

\* if __name__ == "__main__":
Main18 ==
    /\ pc = "L18"
    /\ pc' = IF name = "__main__" THEN "L19" ELSE "client"
    /\ UNCHANGED <<name, value, log, stdout, status>>

\* calc = Calculator()
Main19 ==
    /\ pc = "L19"
    /\ value' = Calculator_init
    /\ pc' = "L20"
    /\ UNCHANGED <<name, log, stdout, status>>

\* calc.add(5)
Main20 ==
    /\ pc = "L20"
    /\ MainCall("add", PyInt(5), Calculator_add(value, PyInt(5)), "L21")

\* Mutant: calc.add(2) for calc.multiply(2).
Main21_add ==
    /\ pc = "L21"
    /\ MainCall("add", PyInt(2), Calculator_add(value, PyInt(2)), "L22")

\* calc.multiply(2)
Main21 ==
    /\ pc = "L21"
    /\ MainCall("multiply", PyInt(2), Calculator_multiply(value, PyInt(2)), "L22")

\* Mutant: the greeter called before the final print.
Main22_hello ==
    /\ pc = "L22"
    /\ stdout' = stdout \o hello_world(value).out \o <<"Result: " \o PyFormat(value)>>
    /\ pc' = "end"
    /\ UNCHANGED <<name, value, log, status>>

\* print(f"Result: {calc.value}")
Main22 ==
    /\ pc = "L22"
    /\ stdout' = Append(stdout, "Result: " \o PyFormat(value))
    /\ pc' = "end"
    /\ UNCHANGED <<name, value, log, status>>

\* The end of the script: the interpreter exits with status 0.
MainExit ==
    /\ pc = "end"
    /\ pc' = "exit"
    /\ status' = <<0>>
    /\ UNCHANGED <<name, value, log, stdout>>

\* A call made by an importer of the module, who sees the exception if one is raised.
ClientCall(op, arg, r) ==
    /\ pc = "client"
    /\ Len(log) < MaxCalls
    /\ value' = r.value
    /\ log' = Append(log, Call(op, arg, value, r))
    /\ stdout' = stdout \o r.out
    /\ UNCHANGED <<name, pc, status>>

New ==
    /\ pc = "client"
    /\ value = Unbound
    /\ value' = Calculator_init
    /\ UNCHANGED <<name, pc, log, stdout, status>>

Add ==
    /\ value # Unbound
    /\ \E num \in Args : ClientCall("add", num, Calculator_add(value, num))

Multiply ==
    /\ value # Unbound
    /\ \E num \in Args : ClientCall("multiply", num, Calculator_multiply(value, num))

Hello ==
    /\ pc = "client"
    /\ ClientCall("hello_world", PyNone, hello_world(value))

Next ==
    \/ Main18
    \/ Main19
    \/ Main20
    \/ Main21
    \/ Main22
    \/ MainExit
    \/ New
    \/ Add
    \/ Multiply
    \/ Hello

Spec == Init /\ [][Next]_vars

\* The interpreter runs the module body to its end.
LiveSpec == Spec /\ WF_vars(Main18 \/ Main19 \/ Main20 \/ Main21 \/ Main22 \/ MainExit)

(***************************************************************************)
(* Auxiliary definitions of the properties.                                *)
(***************************************************************************)
IsOp(c) == c.op \in {"add", "multiply"}

\* The add and multiply calls made so far, in order.
Ops == SelectSeq(log, IsOp)

AllNumeric(ops) == \A i \in DOMAIN ops : IsNum(ops[i].arg)

AllInt(ops) == \A i \in DOMAIN ops : IsInt(ops[i].arg)

\* The left-to-right fold of Python's + and * over the first k calls, from 0.
RECURSIVE PyFold(_, _)
PyFold(ops, k) ==
    IF k = 0 THEN PyInt(0)
    ELSE IF ops[k].op = "add" THEN PyAdd(PyFold(ops, k - 1), ops[k].arg).val
    ELSE PyMul(PyFold(ops, k - 1), ops[k].arg).val

\* The same fold in integer arithmetic.
RECURSIVE IntFold(_, _)
IntFold(ops, k) ==
    IF k = 0 THEN 0
    ELSE IF ops[k].op = "add" THEN IntFold(ops, k - 1) + ops[k].arg.m
    ELSE IntFold(ops, k - 1) * ops[k].arg.m

\* C1: after any sequence of add and multiply calls with numeric arguments on a
\* fresh Calculator, value is the left-to-right fold of + and * over the calls,
\* starting from 0 (the integer fold when every argument is an int); with no
\* call, value is 0.
C1_Fold ==
    (value # Unbound /\ AllNumeric(Ops)) =>
        /\ \A i \in DOMAIN Ops : Ops[i].kind = "return"
        /\ value = PyFold(Ops, Len(Ops))
        /\ AllInt(Ops) => value = PyInt(IntFold(Ops, Len(Ops)))

C1_Witness ==
    /\ AllNumeric(Ops)
    /\ Len(Ops) >= 3
    /\ Ops[1].op = "add" /\ Ops[2].op = "multiply" /\ Ops[3].op = "add"
    /\ IsInt(Ops[1].arg) /\ IsFloat(Ops[2].arg)
    /\ IsFinite(value) /\ ~IsZero(value)

Last(q) == q[Len(q)]

C4_NonNumericFails ==
    \A i \in DOMAIN log :
        /\ (IsOp(log[i]) /\ ~IsNum(log[i].arg)) =>
              (log[i].kind = "raise" /\ log[i].exc = "TypeError")
        /\ log[i].kind = "raise" => log[i].exc = "TypeError"

NumArgs == {a \in Args : IsNum(a)}

IntArgs == {a \in Args : IsInt(a)}

\* The value left by add(a) followed by add(b), from value v.
AddAdd(v, a, b) == Calculator_add(Calculator_add(v, a).value, b).value

\* C5 as stated: from every reachable state, for all numeric a and b, add(a)
\* then add(b) leaves the same value as add(b) then add(a).
C5_AddCommutes ==
    value # Unbound => \A a, b \in NumArgs : AddAdd(value, a, b) = AddAdd(value, b, a)

\* C5 amended: from every reachable state whose value is not a float, for all
\* ints a and b, add(a) then add(b) leaves the same value as add(b) then
\* add(a); two consecutive int adds made from an int value left what the
\* swapped order leaves.
C5_IntAddCommutes ==
    /\ (value # Unbound /\ ~IsFloat(value)) =>
          \A a, b \in IntArgs : AddAdd(value, a, b) = AddAdd(value, b, a)
    /\ \A i \in DOMAIN Ops :
          (/\ i < Len(Ops)
           /\ Ops[i].op = "add" /\ Ops[i + 1].op = "add"
           /\ IsInt(Ops[i].pre) /\ IsInt(Ops[i].arg) /\ IsInt(Ops[i + 1].arg)) =>
              Ops[i + 1].post = AddAdd(Ops[i].pre, Ops[i + 1].arg, Ops[i].arg)

C5_Witness ==
    \E i \in DOMAIN Ops :
        /\ i < Len(Ops)
        /\ Ops[i].op = "add" /\ Ops[i + 1].op = "add"
        /\ IsInt(Ops[i].pre) /\ IsInt(Ops[i].arg) /\ IsInt(Ops[i + 1].arg)
        /\ Ops[i].pre.m # 0
        /\ Ops[i].arg # Ops[i + 1].arg
        /\ value = Ops[i + 1].post

\* Every add and multiply call before call i was given a number.
NumericBefore(i) == \A j \in 1 .. (i - 1) : IsOp(log[j]) => IsNum(log[j].arg)

IsMultiplyByZero(c) == c.op = "multiply" /\ c.arg = PyInt(0)

\* C6 as stated (for the states numeric calls reach): multiply(0) leaves value
\* equal to 0 and returns 0, whatever the value was.
C6_MultiplyZero ==
    \A i \in DOMAIN log :
        (IsMultiplyByZero(log[i]) /\ NumericBefore(i)) =>
            (log[i].kind = "return" /\ IsZero(log[i].post) /\ IsZero(log[i].ret))

\* C6 amended: multiply(0) leaves value equal to 0 and returns it when the value
\* before is a finite number; from an infinity or a nan it leaves and returns
\* nan, and from a str it leaves and returns the empty str.
C6_MultiplyZeroFinite ==
    /\ \A i \in DOMAIN log :
          IsMultiplyByZero(log[i]) =>
             /\ log[i].kind = "return"
             /\ log[i].ret = log[i].post
             /\ IsFinite(log[i].pre) => IsZero(log[i].post)
             /\ (IsFloat(log[i].pre) /\ ~IsFinite(log[i].pre)) => log[i].post = FNaN
             /\ log[i].pre.t = "str" => log[i].post = PyStr("")
    /\ (log # <<>> /\ IsMultiplyByZero(Last(log))) => value = Last(log).post

C6_Witness ==
    /\ log # <<>>
    /\ IsMultiplyByZero(Last(log))
    /\ IsFinite(Last(log).pre) /\ ~IsZero(Last(log).pre)
    /\ IsZero(value)

Main == name = "__main__"

Outcome(c) == [op |-> c.op, arg |-> c.arg, kind |-> c.kind, ret |-> c.ret]

\* What the script's two calls are and return: add(5) -> 5, multiply(2) -> 10.
MainCalls ==
    <<[op |-> "add", arg |-> PyInt(5), kind |-> "return", ret |-> PyInt(5)],
      [op |-> "multiply", arg |-> PyInt(2), kind |-> "return", ret |-> PyInt(10)]>>

\* C7: run as a script, the program constructs one Calculator, calls add(5),
\* which returns 5, then multiply(2) on the same instance, which returns 10, and
\* prints "Result: 10" only after both calls.
C7_MainFlow ==
    Main =>
        /\ Len(log) <= 2
        /\ \A i \in DOMAIN log : Outcome(log[i]) = MainCalls[i]
        /\ Len(log) = 2 => log[2].pre = log[1].post
        /\ (pc = "L18" \/ pc = "L19") => (value = Unbound /\ log = <<>>)
        /\ pc = "L20" => (value = PyInt(0) /\ log = <<>>)
        /\ pc = "L21" => (value = PyInt(5) /\ Len(log) = 1)
        /\ pc \in {"L22", "end", "exit"} => (value = PyInt(10) /\ Len(log) = 2)
        /\ stdout # <<>> => (Len(log) = 2 /\ stdout = <<"Result: 10">>)
        /\ pc \in {"end", "exit"} => stdout = <<"Result: 10">>

C7_Witness == Main /\ Len(log) = 2 /\ stdout = <<"Result: 10">>

HelloLines == SelectSeq(stdout, LAMBDA l : l = "Hello World!")

HelloCalls == SelectSeq(log, LAMBDA c : c.op = "hello_world")

\* C8: every call of hello_world() writes the line "Hello World!" exactly once,
\* returns "success", and leaves the value of the Calculator as it was.
C8_Hello ==
    /\ [](/\ \A i \in DOMAIN log :
               log[i].op = "hello_world" =>
                   /\ log[i].kind = "return"
                   /\ log[i].ret = PyStr("success")
                   /\ log[i].post = log[i].pre
          /\ Len(HelloLines) = Len(HelloCalls))
    /\ [][(log' # log /\ Last(log').op = "hello_world") =>
             (value' = value /\ stdout' = Append(stdout, "Hello World!"))]_vars

C8_Witness ==
    /\ log # <<>>
    /\ Last(log).op = "hello_world"
    /\ IsFinite(Last(log).pre) /\ ~IsZero(Last(log).pre)
    /\ value = Last(log).pre
    /\ Len(HelloLines) = 2

\* C9: run as a script, the program always terminates: it reaches the final
\* print and ends with exit status 0, never with an error status; it never calls
\* the greeter, and its whole standard output is the one line "Result: 10".
C9_Terminates ==
    /\ [](Main =>
            /\ status \in {<<>>, <<0>>}
            /\ HelloCalls = <<>> /\ HelloLines = <<>>
            /\ status = <<0>> <=> pc = "exit"
            /\ pc = "exit" => stdout = <<"Result: 10">>)
    /\ (Main ~> (pc = "exit" /\ status = <<0>> /\ stdout = <<"Result: 10">>))

C9_Witness == Main /\ pc = "exit" /\ status = <<0>> /\ stdout = <<"Result: 10">>

\* What an add or multiply call leaves and gives back from value v.
Expected(op, v, n) ==
    LET r == IF op = "add" THEN PyAdd(v, n) ELSE PyMul(v, n)
    IN [post |-> IF r.ok THEN r.val ELSE v,
        kind |-> IF r.ok THEN "return" ELSE "raise",
        ret |-> r.val]

FailedOnNonNumeric(c) == IsOp(c) /\ c.kind = "raise" /\ ~IsNum(c.arg)

\* C10: an add or multiply call that fails on a non-numeric argument leaves
\* value as it was, hands the error to its caller, and the next call with a
\* numeric argument does what it would have done had the failed call not been
\* made.
C10_FailureLeavesValue ==
    /\ \A i \in DOMAIN log :
          FailedOnNonNumeric(log[i]) =>
             /\ log[i].post = log[i].pre
             /\ log[i].exc = "TypeError"
             /\ (i < Len(log) /\ IsOp(log[i + 1]) /\ IsNum(log[i + 1].arg)) =>
                   /\ log[i + 1].pre = log[i].pre
                   /\ [post |-> log[i + 1].post, kind |-> log[i + 1].kind,
                       ret |-> log[i + 1].ret]
                        = Expected(log[i + 1].op, log[i].pre, log[i + 1].arg)
    /\ (log # <<>> /\ FailedOnNonNumeric(Last(log))) => value = Last(log).pre

C10_Witness ==
    \E i \in DOMAIN log :
        /\ i < Len(log)
        /\ FailedOnNonNumeric(log[i])
        /\ log[i].arg.t = "str"
        /\ IsNum(log[i].pre) /\ ~IsZero(log[i].pre)
        /\ IsOp(log[i + 1]) /\ IsNum(log[i + 1].arg) /\ log[i + 1].kind = "return"
        /\ value = log[i + 1].post /\ value # log[i].pre

====
